---------------------------- MODULE Spec2Model ----------------------------
(***************************************************************************)
(* State-machine model of cli/module_loader.rs: ModuleLoadPreparer         *)
(* (prepare_module_load) and CliModuleLoader (resolve, load, prepare_load).*)
(*                                                                         *)
(* The collaborators whose code lives in other files of the repository     *)
(* (ModuleGraphContainer, ModuleGraphBuilder, graph_valid, the lockfile,   *)
(* the TypeChecker, the NodeResolver, the generic Resolver, the Emitter,   *)
(* the JsRuntime that drives prepare_load/load) are modelled from their    *)
(* contracts in the specification, sections 4.1, 4.2 and 6.                *)
(*                                                                         *)
(* std::env::current_dir() (resolve, line 461) is taken to succeed: the    *)
(* process has a working directory.                                        *)
(*                                                                         *)
(* Three specifications:                                                   *)
(*   Spec         concurrent callers of prepare_module_load, with lockfile *)
(*                and type checking, and a reader of the shared graph;     *)
(*   ResolveSpec  one engine that imports roots and calls resolve;         *)
(*   LoadSpec     one engine that imports roots and calls load.            *)
(***************************************************************************)
EXTENDS Naturals, FiniteSets, Sequences, TLC

(***************************************************************************)
(* Bounds.                                                                 *)
(***************************************************************************)
\* number of concurrent callers (tasks or worker threads sharing ProcState)
NumCallers == 2

\* largest line number asked of get_source_line
MaxLine == 4

Callers == 1..NumCallers

(***************************************************************************)
(* The world outside the process: what the content source serves, what     *)
(* the graph builder makes of it, and which files the type checker and     *)
(* the lockfile object to.  Module contents never change, so a module is   *)
(* determined by its specifier.                                            *)
(***************************************************************************)
Null == "null"

\* specifiers that lie inside an npm package realm (files of installed packages)
NpmRealm == {"nm/cjs.js", "nm/esm.js", "nm/gone.js"}

\* files of the npm realm that cannot be read from disk
Unreadable == {"nm/gone.js"}

\* specifiers the graph builder can turn into a Module
GraphSpecifiers ==
  {"main.ts", "util.ts", "data.json", "types.d.ts", "remap.js", "lib.ts",
   "bad.ts", "npm:pkg", "node:fs", "nm/esm.js", "ambient.d.mts", "vendor/ext.js"}

\* a package reference whose npm resolution fails during the build
UnresolvableNpm == {"npm:broken"}

\* a specifier nobody ever prepares
Unprepared == {"ghost.ts"}

Specifiers == GraphSpecifiers \cup NpmRealm \cup UnresolvableNpm \cup Unprepared

ResOk(target) == [tag |-> "Ok", specifier |-> target]
ResErr(diag) == [tag |-> "Err", diagnostic |-> diag]
ResNone == [tag |-> "None"]

NoDeps == [x \in {} |-> ResNone]

EsmModule(media, deps) == [kind |-> "Esm", media_type |-> media, dependencies |-> deps]
JsonModule == [kind |-> "Json", media_type |-> "Json", dependencies |-> NoDeps]
NpmModule(nv) == [kind |-> "Npm", nv_reference |-> nv, dependencies |-> NoDeps]
NodeModule(name) == [kind |-> "Node", module_name |-> name, dependencies |-> NoDeps]
ExternalModule == [kind |-> "External", dependencies |-> NoDeps]

\* deno_graph::Module for each specifier, as the build records it
Module(s) ==
  CASE s = "main.ts" ->
         EsmModule("TypeScript",
           [x \in {"./util.ts", "node:fs", "npm:pkg"} |->
              CASE x = "./util.ts" -> ResOk("util.ts")
                [] x = "node:fs" -> ResOk("node:fs")
                [] x = "npm:pkg" -> ResOk("npm:pkg")])
    [] s = "util.ts" ->
         EsmModule("TypeScript",
           [x \in {"./data.json", "./types.d.ts", "./ambient.d.mts"} |->
              CASE x = "./data.json" -> ResOk("data.json")
                [] x = "./types.d.ts" -> ResOk("types.d.ts")
                [] x = "./ambient.d.mts" -> ResOk("ambient.d.mts")])
    [] s = "data.json" -> JsonModule
    [] s = "types.d.ts" -> EsmModule("Dts", NoDeps)
    [] s = "ambient.d.mts" -> EsmModule("Dmts", NoDeps)
    [] s = "remap.js" ->
         EsmModule("JavaScript",
           [x \in {"node:fs", "./none", "./vendored.js", "bare"} |->
              CASE x = "node:fs" -> ResOk("lib.ts")
                [] x = "./none" -> ResNone
                [] x = "./vendored.js" -> ResOk("nm/esm.js")
                [] x = "bare" -> ResOk("vendor/ext.js")])
    [] s = "lib.ts" -> EsmModule("TypeScript", NoDeps)
    [] s = "bad.ts" ->
         EsmModule("TypeScript",
           [x \in {"./oops", "./lib.ts"} |->
              CASE x = "./oops" -> ResErr("invalid specifier")
                [] x = "./lib.ts" -> ResOk("lib.ts")])
    [] s = "npm:pkg" -> NpmModule("pkg@1.0.0")
    [] s = "node:fs" -> NodeModule("fs")
    [] s = "nm/esm.js" ->
         EsmModule("JavaScript", [x \in {"mapped"} |-> ResOk("lib.ts")])
    [] s = "vendor/ext.js" -> ExternalModule

\* modules in which the external TypeChecker finds a type error
TypeErrors == {"util.ts"}

\* modules whose content differs from the hash a pre-existing lockfile records
LockMismatch == {"lib.ts"}

Libs == {"window", "worker"}

\* the (roots, lib) arguments with which prepare_module_load is called directly
\* (load_and_type_check_files and the subcommands: one root or several)
Requests ==
  {<<{"main.ts"}, "window">>,
   <<{"remap.js", "data.json"}, "window">>, <<{"remap.js", "data.json"}, "worker">>,
   <<{"bad.ts"}, "window">>, <<{"npm:broken"}, "window">>}


(***************************************************************************)
(* Pure helpers over graphs.  A graph is the set of specifiers it holds;   *)
(* the Module stored under a specifier is Module(s).                       *)
(***************************************************************************)
\* per module, the targets of its Ok edges
OkTargetsOf ==
  [s \in GraphSpecifiers |->
     {Module(s).dependencies[x].specifier :
        x \in {y \in DOMAIN Module(s).dependencies : Module(s).dependencies[y].tag = "Ok"}}]

\* per module, whether one of its edges is an Err resolution
HasErrEdge ==
  [s \in GraphSpecifiers |->
     \E x \in DOMAIN Module(s).dependencies : Module(s).dependencies[x].tag = "Err"]

\* targets of the Ok edges leaving the modules of g
OkTargets(g) == UNION {OkTargetsOf[s] : s \in g \cap GraphSpecifiers}

\* what the build has still to fetch: roots and edge targets not yet recorded
Pending(g, roots) == (roots \cup OkTargets(g)) \ g

RECURSIVE Reach(_, _)
\* graph.segment(roots) / graph.walk(roots): the part of g reachable from roots
Reach(g, from) ==
  LET next == (from \cup OkTargets(from)) \cap g
  IN IF next = from \cap g THEN next ELSE Reach(g, next)

Segment(g, roots) == Reach(g, roots)

\* graph_valid_with_cli_options: an Err resolution reachable from a root
GraphValid(g, roots) ==
  \A s \in Segment(g, roots) : ~HasErrEdge[s]

\* TypeChecker::check on a graph segment
TypeCheckOk(segment) == segment \cap TypeErrors = {}

(***************************************************************************)
(* State.                                                                  *)
(***************************************************************************)
VARIABLES
  loader,               \* CliModuleLoader: the root_permissions and dynamic_permissions it stores
  options,              \* CliOptions: type_check_mode, reload_flag, sub_command, is_inspecting
  lockfile,             \* Option<Arc<Mutex<Lockfile>>>: whether configured, the entries whose
                        \* recorded hash is outdated, whether the file on disk has what was merged
  graph,                \* ModuleGraphContainer: the committed snapshot
  permits,              \* ModuleGraphContainer: callers holding an update permit
  type_checked,         \* ModuleGraphContainer: the TypeCheckedRegistry
  cjs_resolutions,      \* CjsResolutionStore
  parsed_source_cache,  \* ParsedSourceCache: specifiers with a parsed source in memory
  pc,                   \* per caller: where its prepare_module_load call stands
  call,                 \* per caller: the arguments and locals of that call
  work,                 \* per caller: the working copy inside its permit (graph_mut)
  obs,                  \* what the synchronous call just made returned to its caller
  exited                \* the process was terminated by graph_lock_or_exit

vars ==
  <<loader, options, lockfile, graph, permits, type_checked, cjs_resolutions, parsed_source_cache,
    pc, call, work, obs, exited>>

\* the variables of the loader that prepare_module_load never touches
loader_vars == <<cjs_resolutions, parsed_source_cache, obs>>

\* entry is a history field, the code keeps no such value: the roots of the
\* call that were in the committed graph at the moment the call was made,
\* kept in the runs of ReloadMatters
NoCall ==
  [via |-> Null, roots |-> {}, lib |-> Null, is_dynamic |-> FALSE,
   root_permissions |-> Null, dynamic_permissions |-> Null, loaded |-> {},
   reload_exclusions |-> {}, base |-> {}, verified |-> FALSE,
   checked |-> Null, reload |-> FALSE, entry |-> {}]

NoObs == [op |-> Null]

\* return values of prepare_module_load: Ok(()) and the errors of its `?` operators
PreCommitErrors == {"err_build", "err_valid", "err_write"}
Returned == {"ok", "err_check"} \cup PreCommitErrors

\* positions at which the caller holds its permit (lines 135-171)
InPermit == {"build", "lock", "write", "commit"}

\* A return value is handed to the caller at once: nothing else happens in between.
Ready ==
  /\ ~exited
  /\ obs = NoObs
  /\ \A p \in Callers : pc[p] \notin Returned

\* the permission sets a CliModuleLoader is constructed with (lines 235, 238)
RootPermissions == "root"
DynamicPermissions == "dynamic"

InitShared ==
  /\ loader = [root_permissions |-> RootPermissions,
               dynamic_permissions |-> DynamicPermissions]
  /\ graph = {}
  /\ permits = {}
  /\ type_checked = {}
  /\ cjs_resolutions = {}
  /\ parsed_source_cache = {}
  /\ pc = [p \in Callers |-> "idle"]
  /\ call = [p \in Callers |-> NoCall]
  /\ work = [p \in Callers |-> {}]
  /\ obs = NoObs
  /\ exited = FALSE

NoLockfile == [configured |-> FALSE, stale |-> {}, persisted |-> TRUE]

\* no lockfile; a lockfile all of whose hashes are current; a lockfile that
\* records an outdated hash
Lockfiles ==
  {NoLockfile,
   [configured |-> TRUE, stale |-> {}, persisted |-> TRUE],
   [configured |-> TRUE, stale |-> LockMismatch, persisted |-> TRUE]}

Init ==
  /\ options \in [type_check : BOOLEAN, reload : BOOLEAN, repl : {FALSE}, inspecting : {FALSE}]
  /\ lockfile \in Lockfiles
  /\ InitShared

(***************************************************************************)
(* ModuleGraphContainer (graph_util.rs), from section 4.1.                 *)
(***************************************************************************)
\* acquire_update_permit().await resolves only when no permit is outstanding
PermitAvailable == permits = {}

\* graph(): the current committed snapshot
GraphSnapshot == graph

\* is_type_checked(roots, lib)
IsTypeChecked(roots, lib) == <<roots, lib>> \in type_checked

(***************************************************************************)
(* ModuleLoadPreparer::prepare_module_load, lines 106-198.                 *)
(***************************************************************************)
\* the call of caller p moves on to position `next`
Goes(p, next) == pc' = [pc EXCEPT ![p] = next]

\* FailsInPermit with the permit leaked instead of dropped
FailsKeepingPermit(p, error) ==
  /\ pc' = [pc EXCEPT ![p] = error]
  /\ permits' = permits
  /\ work' = [work EXCEPT ![p] = {}]

\* a `?` before the commit: the error is returned and the permit dropped with
\* its working copy
FailsInPermit(p, error) ==
  /\ pc' = [pc EXCEPT ![p] = error]
  /\ permits' = permits \ {p}
  /\ work' = [work EXCEPT ![p] = {}]

\* the runs in which the history field entry is kept: line 187 reads the
\* exclusions, and no lockfile is configured
ReloadMatters == options.type_check /\ options.reload /\ ~lockfile.configured

\* lines 114-130: the call is made; nothing shared is touched before the permit
PrepareModuleLoad(p, roots, is_dynamic, lib, root_permissions, dynamic_permissions, via) ==
  /\ Ready
  /\ pc[p] = "idle"
  /\ Goes(p, "acquire")
  /\ call' = [call EXCEPT ![p] =
                [NoCall EXCEPT !.via = via, !.roots = roots, !.lib = lib,
                               !.is_dynamic = is_dynamic,
                               !.root_permissions = root_permissions,
                               !.dynamic_permissions = dynamic_permissions,
                               !.entry = IF ReloadMatters
                                           THEN roots \cap GraphSnapshot
                                           ELSE {}]]
  /\ UNCHANGED <<loader, options, lockfile, graph, permits, type_checked, work, exited>>
  /\ UNCHANGED loader_vars

\* the modules the analyzer parses when the build fetches `found`
Parsed(found) == {s \in found \cap GraphSpecifiers : Module(s).kind = "Esm"}

\* AcquirePermit without the await of line 134
AcquireWithoutWaiting(p) ==
  /\ Ready
  /\ pc[p] = "acquire"
  /\ permits' = permits \cup {p}
  /\ work' = [work EXCEPT ![p] = GraphSnapshot]
  /\ call' = [call EXCEPT ![p].reload_exclusions = GraphSnapshot,
                          ![p].base = GraphSnapshot]
  /\ Goes(p, "build")
  /\ UNCHANGED <<loader, options, lockfile, graph, type_checked, exited>>
  /\ UNCHANGED loader_vars

\* AcquirePermit whose exclusions leave out the roots that were committed
\* after the call was made, during the wait for the permit
AcquirePermitEarlySnapshot(p) ==
  /\ Ready
  /\ pc[p] = "acquire"
  /\ PermitAvailable
  /\ permits' = permits \cup {p}
  /\ work' = [work EXCEPT ![p] = GraphSnapshot]
  /\ call' = [call EXCEPT ![p].reload_exclusions =
                            {s \in GraphSnapshot : s \notin call[p].roots \/ s \in call[p].entry},
                          ![p].base = GraphSnapshot]
  /\ Goes(p, "build")
  /\ UNCHANGED <<loader, options, lockfile, graph, type_checked, exited>>
  /\ UNCHANGED loader_vars

\* AcquirePermit whose working copy starts empty instead of from the
\* committed graph
AcquirePermitFreshGraph(p) ==
  /\ Ready
  /\ pc[p] = "acquire"
  /\ PermitAvailable
  /\ permits' = permits \cup {p}
  /\ work' = [work EXCEPT ![p] = {}]
  /\ call' = [call EXCEPT ![p].reload_exclusions = GraphSnapshot,
                          ![p].base = GraphSnapshot]
  /\ Goes(p, "build")
  /\ UNCHANGED <<loader, options, lockfile, graph, type_checked, exited>>
  /\ UNCHANGED loader_vars

\* lines 133-140: await the permit, take the working copy, snapshot its specifiers
AcquirePermit(p) ==
  /\ Ready
  /\ pc[p] = "acquire"
  /\ PermitAvailable
  /\ permits' = permits \cup {p}
  /\ work' = [work EXCEPT ![p] = GraphSnapshot]
  /\ call' = [call EXCEPT ![p].reload_exclusions = GraphSnapshot,
                          ![p].base = GraphSnapshot]
  /\ Goes(p, "build")
  /\ UNCHANGED <<loader, options, lockfile, graph, type_checked, exited>>
  /\ UNCHANGED loader_vars

\* BuildStep with graph_mut() handing out the shared graph itself
BuildStepOnSharedGraph(p) ==
  /\ Ready
  /\ pc[p] = "build"
  /\ Pending(work[p], call[p].roots) \cap GraphSpecifiers # {}
  /\ work' = [work EXCEPT ![p] = work[p] \cup (Pending(work[p], call[p].roots) \cap GraphSpecifiers)]
  /\ graph' = graph \cup (Pending(work[p], call[p].roots) \cap GraphSpecifiers)
  /\ parsed_source_cache' = parsed_source_cache \cup Parsed(Pending(work[p], call[p].roots))
  /\ UNCHANGED <<loader, options, lockfile, permits, type_checked, pc, call, exited>>
  /\ UNCHANGED <<cjs_resolutions, obs>>

\* lines 130, 142-157: one round of fetches; the modules found are recorded in
\* the working copy, their imports become pending, and the analyzer (the
\* ParsedSourceCache) keeps the parsed source of each
BuildStep(p) ==
  /\ Ready
  /\ pc[p] = "build"
  /\ Pending(work[p], call[p].roots) \cap GraphSpecifiers # {}
  /\ work' = [work EXCEPT ![p] = work[p] \cup (Pending(work[p], call[p].roots) \cap GraphSpecifiers)]
  /\ parsed_source_cache' = parsed_source_cache \cup Parsed(Pending(work[p], call[p].roots))
  /\ UNCHANGED <<loader, options, lockfile, graph, permits, type_checked, pc, call, exited>>
  /\ UNCHANGED <<cjs_resolutions, obs>>

\* line 157: build_graph_with_npm_resolution returns an error
BuildFail(p) ==
  /\ Ready
  /\ pc[p] = "build"
  /\ Pending(work[p], call[p].roots) \cap UnresolvableNpm # {}
  /\ FailsInPermit(p, "err_build")
  /\ UNCHANGED <<loader, options, lockfile, graph, type_checked, call, exited>>
  /\ UNCHANGED loader_vars

\* BuildDoneValidate that goes on whatever the validation says
BuildDoneValidateIgnored(p) ==
  /\ Ready
  /\ pc[p] = "build"
  /\ Pending(work[p], call[p].roots) = {}
  /\ Goes(p, IF lockfile.configured THEN "lock" ELSE "commit")
  /\ UNCHANGED <<permits, work>>
  /\ UNCHANGED <<loader, options, lockfile, graph, type_checked, call, exited>>
  /\ UNCHANGED loader_vars

\* lines 157-162: the build is complete; graph_valid_with_cli_options(graph,
\* &roots, &self.options)?; then the lockfile, if there is one
BuildDoneValidate(p) ==
  /\ Ready
  /\ pc[p] = "build"
  /\ Pending(work[p], call[p].roots) = {}
  /\ IF GraphValid(work[p], call[p].roots)
       THEN /\ Goes(p, IF lockfile.configured THEN "lock" ELSE "commit")
            /\ UNCHANGED <<permits, work>>
       ELSE FailsInPermit(p, "err_valid")
  /\ UNCHANGED <<loader, options, lockfile, graph, type_checked, call, exited>>
  /\ UNCHANGED loader_vars

\* LockOrExit that reports the mismatch and carries on
LockWithoutExit(p) ==
  /\ Ready
  /\ pc[p] = "lock"
  /\ lockfile' = [lockfile EXCEPT !.persisted = FALSE]
  /\ call' = [call EXCEPT ![p].verified = TRUE]
  /\ Goes(p, "write")
  /\ UNCHANGED <<loader, options, graph, permits, type_checked, work, exited>>
  /\ UNCHANGED loader_vars

\* lines 163-165: graph_lock_or_exit(graph, &mut lockfile)
LockOrExit(p) ==
  /\ Ready
  /\ pc[p] = "lock"
  /\ IF work[p] \cap lockfile.stale # {}
       THEN /\ exited' = TRUE
            /\ UNCHANGED <<lockfile, pc, call>>
       ELSE /\ lockfile' = [lockfile EXCEPT !.persisted = FALSE]
            /\ call' = [call EXCEPT ![p].verified = TRUE]
            /\ Goes(p, "write")
            /\ UNCHANGED exited
  /\ UNCHANGED <<loader, options, graph, permits, type_checked, work>>
  /\ UNCHANGED loader_vars

\* line 167: lockfile.write()?
WriteLockfile(p) ==
  /\ Ready
  /\ pc[p] = "write"
  /\ \E io_ok \in BOOLEAN :
       IF io_ok
         THEN /\ lockfile' = [lockfile EXCEPT !.persisted = TRUE]
              /\ Goes(p, "commit")
              /\ UNCHANGED <<permits, work>>
         ELSE /\ FailsInPermit(p, "err_write")
              /\ UNCHANGED lockfile
  /\ UNCHANGED <<loader, options, graph, type_checked, call, exited>>
  /\ UNCHANGED loader_vars

\* the locals of a call that are still alive after line 171
Committed(c) ==
  [NoCall EXCEPT !.via = c.via, !.roots = c.roots, !.lib = c.lib,
                 !.is_dynamic = c.is_dynamic]

\* CommitAndGate whose gate lets the reload flag force a new check
CommitAndGateReloadForces(p) ==
  /\ Ready
  /\ pc[p] = "commit"
  /\ graph' = work[p]
  /\ permits' = permits \ {p}
  /\ work' = [work EXCEPT ![p] = {}]
  /\ IF options.type_check
        /\ (options.reload \/ ~IsTypeChecked(call[p].roots, call[p].lib))
       THEN /\ Goes(p, "check")
            /\ call' = [call EXCEPT ![p] =
                          [Committed(call[p]) EXCEPT
                             !.entry = call[p].entry,
                             !.reload =
                               options.reload
                                 /\ ~(call[p].roots \subseteq call[p].reload_exclusions)]]
       ELSE /\ Goes(p, "ok")
            /\ call' = [call EXCEPT ![p] = Committed(call[p])]
  /\ UNCHANGED <<loader, options, lockfile, type_checked, exited>>
  /\ UNCHANGED loader_vars

\* CommitAndGate that holds the working copy back while a check is to be made
CommitAndGateCheckFirst(p) ==
  /\ Ready
  /\ pc[p] = "commit"
  /\ permits' = permits \ {p}
  /\ work' = [work EXCEPT ![p] = {}]
  /\ IF options.type_check /\ ~IsTypeChecked(call[p].roots, call[p].lib)
       THEN /\ Goes(p, "check")
            /\ graph' = graph
            /\ call' = [call EXCEPT ![p] =
                          [Committed(call[p]) EXCEPT
                             !.entry = call[p].entry,
                             !.reload =
                               options.reload
                                 /\ ~(call[p].roots \subseteq call[p].reload_exclusions)]]
       ELSE /\ Goes(p, "ok")
            /\ graph' = work[p]
            /\ call' = [call EXCEPT ![p] = Committed(call[p])]
  /\ UNCHANGED <<loader, options, lockfile, type_checked, exited>>
  /\ UNCHANGED loader_vars

\* lines 171-191: graph_update_permit.commit() publishes the working copy and
\* releases the permit; then, with no suspension in between, the gate and
\* behind it the call of the TypeChecker on graph.segment(&roots)
CommitAndGate(p) ==
  /\ Ready
  /\ pc[p] = "commit"
  /\ graph' = work[p]
  /\ permits' = permits \ {p}
  /\ work' = [work EXCEPT ![p] = {}]
  /\ IF options.type_check /\ ~IsTypeChecked(call[p].roots, call[p].lib)
       THEN /\ Goes(p, "check")
            /\ call' = [call EXCEPT ![p] =
                          [Committed(call[p]) EXCEPT
                             !.entry = call[p].entry,
                             !.reload =
                               options.reload
                                 /\ ~(call[p].roots \subseteq call[p].reload_exclusions)]]
       ELSE /\ Goes(p, "ok")
            /\ call' = [call EXCEPT ![p] = Committed(call[p])]
  /\ UNCHANGED <<loader, options, lockfile, type_checked, exited>>
  /\ UNCHANGED loader_vars

\* TypeCheckReturn with the error of the check dropped instead of returned
TypeCheckReturnErrorSwallowed(p) ==
  /\ Ready
  /\ pc[p] = "check"
  /\ IF TypeCheckOk(Segment(GraphSnapshot, call[p].roots))
       THEN /\ type_checked' = type_checked \cup {<<call[p].roots, call[p].lib>>}
            /\ call' = [call EXCEPT ![p].checked = "passed"]
            /\ Goes(p, "ok")
       ELSE /\ call' = [call EXCEPT ![p].checked = "failed"]
            /\ Goes(p, "ok")
            /\ UNCHANGED type_checked
  /\ UNCHANGED <<loader, options, lockfile, graph, permits, work, exited>>
  /\ UNCHANGED loader_vars

\* lines 191-197: the check resolves; on success set_type_checked(&roots, lib)
TypeCheckReturn(p) ==
  /\ Ready
  /\ pc[p] = "check"
  /\ IF TypeCheckOk(Segment(GraphSnapshot, call[p].roots))
       THEN /\ type_checked' = type_checked \cup {<<call[p].roots, call[p].lib>>}
            /\ call' = [call EXCEPT ![p].checked = "passed"]
            /\ Goes(p, "ok")
       ELSE /\ call' = [call EXCEPT ![p].checked = "failed"]
            /\ Goes(p, "err_check")
            /\ UNCHANGED type_checked
  /\ UNCHANGED <<loader, options, lockfile, graph, permits, work, exited>>
  /\ UNCHANGED loader_vars

\* the result reaches the caller of prepare_module_load; the Ok of a
\* prepare_load is taken up by the engine (EngineLoad)
Return(p) ==
  /\ ~exited
  /\ pc[p] \in Returned
  /\ ~(pc[p] = "ok" /\ call[p].via = "prepare_load")
  /\ Goes(p, "idle")
  /\ call' = [call EXCEPT ![p] = NoCall]
  /\ UNCHANGED <<loader, options, lockfile, graph, permits, type_checked, work, exited>>
  /\ UNCHANGED loader_vars

(***************************************************************************)
(* A reader of the shared graph.                                           *)
(***************************************************************************)
\* graph_container.graph() (lines 302, 479, 642), by any task at any moment
ReadGraph ==
  /\ Ready
  /\ obs' = [op |-> "graph", value |-> GraphSnapshot]
  /\ UNCHANGED <<loader, options, lockfile, graph, permits, type_checked, cjs_resolutions,
                 parsed_source_cache, pc, call, work, exited>>

\* the caller of a synchronous call has its result
Consume ==
  /\ ~exited
  /\ obs # NoObs
  /\ obs' = NoObs
  /\ UNCHANGED <<loader, options, lockfile, graph, permits, type_checked, cjs_resolutions,
                 parsed_source_cache, pc, call, work, exited>>

PrepareStep(p) ==
  \/ AcquirePermit(p)
  \/ BuildStep(p)
  \/ BuildFail(p)
  \/ BuildDoneValidate(p)
  \/ LockOrExit(p)
  \/ WriteLockfile(p)
  \/ CommitAndGate(p)
  \/ TypeCheckReturn(p)
  \/ Return(p)

Next ==
  \/ \E p \in Callers, r \in Requests :
       PrepareModuleLoad(p, r[1], FALSE, r[2], "allow_all", "allow_all", "direct")
  \/ \E p \in Callers : PrepareStep(p)
  \/ ReadGraph
  \/ Consume

Spec == Init /\ [][Next]_vars

(***************************************************************************)
(* The world of CliModuleLoader: the strings the engine passes to resolve  *)
(* and load, and the answers of the collaborators it consults.             *)
(***************************************************************************)
Ok(url) == [ok |-> TRUE, url |-> url]

\* an error of class `class` whose message is `message` and names `names`
Err(class, message, names) ==
  [ok |-> FALSE, class |-> class, message |-> message, names |-> names, context |-> <<>>]

\* .with_context(..): the error, if any, is wrapped in a message naming `names`
WithContext(result, message, names) ==
  IF result.ok THEN result ELSE [result EXCEPT !.context = <<message>> \o names]

\* files the dynamic permissions do not allow to read
DynamicDenied == {"nm/cjs.js"}

\* the lib of the loader (new: the window lib, line 257)
LoaderLib == "window"

\* referrer strings that are not a URL or path
UnparsableReferrers == {"http://["}

\* referrers handed to resolve: none, modules of the graph, a module that was
\* never prepared, files of an npm package, garbage
Referrers ==
  {"", "main.ts", "remap.js", "data.json", "ghost.ts", "nm/esm.js", "nm/cjs.js"}
    \cup UnparsableReferrers

\* specifier strings handed to resolve
ImportSpecifiers ==
  {"./util.ts", "node:fs", "node:nope", "npm:pkg", "npm:blocked", "./none",
   "./oops", "mapped", "./cjs.js", "bare"}

ResolutionKinds == {"Import", "DynamicImport"}

\* deno_core::resolve_url_or_path(referrer, &cwd): a path, the empty one
\* included, is joined to the working directory
ResolveUrlOrPath(referrer) ==
  IF referrer \in UnparsableReferrers
    THEN Err("Error", "invalid URL", <<referrer>>)
    ELSE IF referrer = "" THEN Ok("cwd/") ELSE Ok(referrer)

\* deno_core::resolve_path("./$deno$repl.ts", &cwd)
ReplReferrer == Ok("cwd/$deno$repl.ts")

\* files the NodeResolver classifies as CommonJS
CommonJsFiles == {"nm/cjs.js"}

\* NodeResolver::in_npm_package
InNpmPackage(specifier) == specifier \in NpmRealm

NodeErr(message) == [tag |-> "Err", message |-> message]
NodeNone == [tag |-> "None"]
CommonJs(specifier) == [tag |-> "CommonJs", specifier |-> specifier]
NodeEsm(specifier) == [tag |-> "Esm", specifier |-> specifier]
BuiltIn(name) == [tag |-> "BuiltIn", specifier |-> name]

\* the NodeResolver refuses a file the permissions do not allow to read
Permitted(resolution, permissions) ==
  IF /\ resolution.tag \in {"CommonJs", "Esm"}
     /\ permissions = DynamicPermissions
     /\ resolution.specifier \in DynamicDenied
    THEN NodeErr("Requires read access")
    ELSE resolution

\* NodeResolver::resolve(specifier, referrer, Execution, permissions)
NodeResolve(specifier, referrer, permissions) ==
  Permitted(
    CASE specifier = "./cjs.js" -> CommonJs("nm/cjs.js")
      [] specifier = "mapped" -> NodeEsm("nm/esm.js")
      [] specifier = "node:fs" -> BuiltIn("fs")
      [] specifier = "node:nope" -> BuiltIn("nope")
      [] specifier \in {"bare", "npm:pkg", "npm:blocked"} -> NodeNone
      [] OTHER -> NodeErr("Cannot find module"),
    permissions)

\* NodeResolver::resolve_npm_reference(nv_reference, Execution, permissions)
ResolveNpmReference(nv_reference, permissions) ==
  Permitted(
    CASE nv_reference = "pkg@1.0.0" -> CommonJs("nm/cjs.js")
      [] OTHER -> NodeNone,
    permissions)

\* NodeResolver::resolve_npm_req_reference(reference, Execution, permissions)
ResolveNpmReqReference(reference, permissions) ==
  Permitted(
    CASE reference = "npm:pkg" -> CommonJs("nm/cjs.js")
      [] reference = "npm:blocked" -> NodeEsm("nm/esm.js")
      [] OTHER -> NodeNone,
    permissions)

\* builtin names the runtime implements
SupportedBuiltins == {"fs"}

\* node::resolve_builtin_node_module(name)
ResolveBuiltinNodeModule(name) ==
  IF name \in SupportedBuiltins
    THEN Ok(CASE name = "fs" -> "ext:deno_node/fs.ts")
    ELSE Err("Error", "Unknown built-in \"node:\" module", <<name>>)

\* node::resolve_specifier_into_node_modules(specifier)
ResolveSpecifierIntoNodeModules(specifier) ==
  IF specifier = "vendor/ext.js" THEN "node_modules/.deno/ext.js" ELSE specifier

\* specifier.strip_prefix("node:")
HasNodePrefix(specifier) == specifier \in {"node:fs", "node:nope"}
StripNodePrefix(specifier) ==
  CASE specifier = "node:fs" -> "fs"
    [] specifier = "node:nope" -> "nope"

\* CliGraphResolver::resolve(specifier, referrer): import map, then URL rules
GenericResolve(specifier, referrer) ==
  CASE specifier = "./util.ts" -> Ok("util.ts")
    [] specifier = "mapped" -> Ok("lib.ts")
    [] specifier = "npm:pkg" -> Ok("npm:pkg")
    [] specifier = "npm:blocked" ->
         Err("Error", "Blocked by null entry", <<specifier, referrer>>)
    [] specifier = "bare" ->
         Err("TypeError", "Relative import path not prefixed", <<specifier, referrer>>)
    [] specifier = "./none" -> Ok("none.ts")
    [] specifier = "./oops" -> Ok("oops.ts")
    [] specifier = "./cjs.js" -> Ok("cjs.js")
    [] specifier = "node:fs" -> Ok("node:fs")
    [] specifier = "node:nope" -> Ok("node:nope")

\* ModuleSpecifier::parse(specifier) succeeds
ParsesAsUrl(specifier) == specifier \in {"npm:pkg", "npm:blocked", "node:fs", "node:nope"}

\* NpmPackageReqReference::from_specifier(specifier) succeeds
IsNpmPackageReq(specifier) == specifier \in {"npm:pkg", "npm:blocked"}

\* specifier.scheme()
Scheme(specifier) ==
  CASE specifier \in {"node:fs", "node:nope"} -> "node"
    [] specifier \in {"npm:pkg", "npm:broken", "npm:blocked"} -> "npm"
    [] OTHER -> "file"

(***************************************************************************)
(* CliModuleLoader::resolve, lines 428-568.  An answer is the value        *)
(* returned, the specifiers inserted into the CjsResolutionStore on the    *)
(* way, the rule that produced the value and the collaborators consulted.  *)
(***************************************************************************)
\* HandleNodeResolveResult without the insert of line 438
HandleNodeResolveResultForgetful(result) ==
  CASE result.tag = "Err" ->
         [value |-> Err("Error", result.message, <<>>), insert |-> {}]
    [] result.tag = "None" ->
         [value |-> Err("Error", "not found", <<>>), insert |-> {}]
    [] result.tag = "BuiltIn" ->
         [value |-> ResolveBuiltinNodeModule(result.specifier), insert |-> {}]
    [] result.tag \in {"CommonJs", "Esm"} ->
         [value |-> Ok(result.specifier), insert |-> {}]

\* handle_node_resolve_result, lines 428-443
HandleNodeResolveResult(result) ==
  CASE result.tag = "Err" ->
         [value |-> Err("Error", result.message, <<>>), insert |-> {}]
    [] result.tag = "None" ->
         [value |-> Err("Error", "not found", <<>>), insert |-> {}]
    [] result.tag = "CommonJs" ->
         [value |-> Ok(result.specifier), insert |-> {result.specifier}]
    [] result.tag = "BuiltIn" ->
         [value |-> ResolveBuiltinNodeModule(result.specifier), insert |-> {}]
    [] result.tag = "Esm" ->
         [value |-> Ok(result.specifier), insert |-> {}]

Answer(rule, consulted, value, insert) ==
  [rule |-> rule, consulted |-> consulted, value |-> value, insert |-> insert]

\* an answer that comes from the NodeResolver through handle_node_resolve_result
NodeAnswer(rule, consulted, result, message, names) ==
  LET handled == HandleNodeResolveResult(result)
  IN Answer(rule, consulted, WithContext(handled.value, message, names), handled.insert)

\* lines 480-485: the resolution the referrer's module records for the specifier
MaybeResolved(g, referrer, specifier) ==
  IF /\ referrer \in g
     /\ Module(referrer).kind = "Esm"
     /\ specifier \in DOMAIN Module(referrer).dependencies
    THEN Module(referrer).dependencies[specifier]
    ELSE ResNone

\* ResolveOkEdge that gives an External target's own specifier
ResolveOkEdgeNoRemap(g, target, permissions) ==
  IF target \notin g
    THEN Answer("graph_edge", {"graph"}, Ok(target), {})
    ELSE CASE Module(target).kind = "Npm" ->
                NodeAnswer("graph_edge", {"graph", "node_resolver"},
                           ResolveNpmReference(Module(target).nv_reference, permissions),
                           "Could not resolve", <<Module(target).nv_reference>>)
           [] Module(target).kind = "Node" ->
                Answer("graph_edge", {"graph", "builtin"},
                       ResolveBuiltinNodeModule(Module(target).module_name), {})
           [] Module(target).kind \in {"Esm", "Json", "External"} ->
                Answer("graph_edge", {"graph"}, Ok(target), {})

\* lines 488-513: an Ok edge is dispatched on the kind of its target
ResolveOkEdge(g, target, permissions) ==
  IF target \notin g
    THEN Answer("graph_edge", {"graph"}, Ok(target), {})
    ELSE CASE Module(target).kind = "Npm" ->
                NodeAnswer("graph_edge", {"graph", "node_resolver"},
                           ResolveNpmReference(Module(target).nv_reference, permissions),
                           "Could not resolve", <<Module(target).nv_reference>>)
           [] Module(target).kind = "Node" ->
                Answer("graph_edge", {"graph", "builtin"},
                       ResolveBuiltinNodeModule(Module(target).module_name), {})
           [] Module(target).kind \in {"Esm", "Json"} ->
                Answer("graph_edge", {"graph"}, Ok(target), {})
           [] Module(target).kind = "External" ->
                Answer("graph_edge", {"graph"}, Ok(ResolveSpecifierIntoNodeModules(target)), {})

\* ResolveGeneric that tries the package requirement outside the REPL too
ResolveGenericFallbackAlways(specifier, referrer, referrer_result, permissions, seen) ==
  LET is_repl == options.repl
      referrer_used == IF referrer = "" /\ is_repl THEN ReplReferrer ELSE referrer_result
      resolution == GenericResolve(specifier, referrer_used.url)
      candidate == IF resolution.ok THEN resolution.url
                   ELSE IF ParsesAsUrl(specifier) THEN specifier ELSE Null
  IN IF ~referrer_used.ok
       THEN Answer("referrer_error", seen, referrer_used, {})
       ELSE IF candidate # Null /\ IsNpmPackageReq(candidate)
         THEN NodeAnswer("repl_npm", seen \cup {"resolver", "node_resolver"},
                         ResolveNpmReqReference(candidate, permissions),
                         "Could not resolve", <<candidate>>)
         ELSE Answer("resolver", seen \cup {"resolver"}, resolution, {})

\* lines 532-567: the REPL referrer, the generic resolver, the REPL package
\* fallback; `seen` are the collaborators consulted so far
ResolveGeneric(specifier, referrer, referrer_result, permissions, seen) ==
  LET is_repl == options.repl
      referrer_used == IF referrer = "" /\ is_repl THEN ReplReferrer ELSE referrer_result
      resolution == GenericResolve(specifier, referrer_used.url)
      candidate == IF resolution.ok THEN resolution.url
                   ELSE IF ParsesAsUrl(specifier) THEN specifier ELSE Null
  IN IF ~referrer_used.ok
       THEN Answer("referrer_error", seen, referrer_used, {})
       ELSE IF is_repl /\ candidate # Null /\ IsNpmPackageReq(candidate)
         THEN NodeAnswer("repl_npm", seen \cup {"resolver", "node_resolver"},
                         ResolveNpmReqReference(candidate, permissions),
                         "Could not resolve", <<candidate>>)
         ELSE Answer("resolver", seen \cup {"resolver"}, resolution, {})

\* ResolveUnrecorded without the rule of lines 525-527
ResolveUnrecordedNoPrefixRule(specifier, referrer, referrer_result, permissions, seen) ==
  ResolveGeneric(specifier, referrer, referrer_result, permissions, seen)

\* lines 524-567: no graph edge decided; a "node:" specifier is a builtin,
\* anything else goes to the generic resolver
ResolveUnrecorded(specifier, referrer, referrer_result, permissions, seen) ==
  IF HasNodePrefix(specifier)
    THEN Answer("builtin_prefix", seen \cup {"builtin"},
                ResolveBuiltinNodeModule(StripNodePrefix(specifier)), {})
    ELSE ResolveGeneric(specifier, referrer, referrer_result, permissions, seen)

\* lines 479-527: the referrer is outside an npm package; its graph edge for
\* the specifier, if it records one, decides
ResolveByGraph(specifier, referrer, referrer_result, permissions) ==
  LET g == GraphSnapshot
      maybe_resolved == MaybeResolved(g, referrer_result.url, specifier)
  IN CASE maybe_resolved.tag = "Ok" ->
            ResolveOkEdge(g, maybe_resolved.specifier, permissions)
       [] maybe_resolved.tag = "Err" ->
            Answer("graph_edge", {"graph"},
                   Err("TypeError", maybe_resolved.diagnostic, <<>>), {})
       [] maybe_resolved.tag = "None" ->
            ResolveUnrecorded(specifier, referrer, referrer_result, permissions, {"graph"})

\* ResolveInNpmPackage with the graph edge of the referrer consulted first
ResolveInNpmPackageEdgeFirst(specifier, referrer, referrer_result, permissions) ==
  IF MaybeResolved(GraphSnapshot, referrer_result.url, specifier).tag = "None"
    THEN NodeAnswer("npm_referrer", {"graph", "node_resolver"},
                    NodeResolve(specifier, referrer_result.url, permissions),
                    "Could not resolve", <<specifier, referrer_result.url>>)
    ELSE ResolveByGraph(specifier, referrer, referrer_result, permissions)

\* lines 465-477: the referrer is inside an npm package, so node resolution is used
ResolveInNpmPackage(specifier, referrer, referrer_result, permissions) ==
  NodeAnswer("npm_referrer", {"node_resolver"},
             NodeResolve(specifier, referrer_result.url, permissions),
             "Could not resolve", <<specifier, referrer_result.url>>)

\* resolve, lines 447-568
Resolve(specifier, referrer, kind) ==
  LET permissions == IF kind = "DynamicImport" THEN loader.dynamic_permissions
                                                ELSE loader.root_permissions
      referrer_result == ResolveUrlOrPath(referrer)
  IN IF referrer_result.ok
       THEN IF InNpmPackage(referrer_result.url)
              THEN ResolveInNpmPackage(specifier, referrer, referrer_result, permissions)
              ELSE ResolveByGraph(specifier, referrer, referrer_result, permissions)
       ELSE ResolveUnrecorded(specifier, referrer, referrer_result, permissions, {})

\* a call of resolve by the engine
ResolveCall(specifier, referrer, kind) ==
  /\ Ready
  /\ LET answer == Resolve(specifier, referrer, kind)
     IN /\ cjs_resolutions' = cjs_resolutions \cup answer.insert
        /\ obs' = [op |-> "resolve", specifier |-> specifier, referrer |-> referrer,
                   kind |-> kind, value |-> answer.value, rule |-> answer.rule,
                   consulted |-> answer.consulted]
  /\ UNCHANGED <<loader, options, lockfile, graph, permits, type_checked, parsed_source_cache,
                 pc, call, work, exited>>

(***************************************************************************)
(* Sources.  Code is the sequence of its lines.                            *)
(***************************************************************************)
SourceMapLine == "//# sourceMappingURL=data:application/json;base64,e30="

\* module.source of the Esm and Json modules of the graph
Source(s) ==
  CASE s = "main.ts" -> <<"import './util.ts'", "export const x: number = 1", "">>
    [] s = "util.ts" -> <<"export let y: string = 1">>
    [] s = "data.json" -> <<"{}">>
    [] s = "types.d.ts" -> <<"declare const z: number">>
    [] s = "ambient.d.mts" -> <<"declare module 'm'", "export const a = 1", SourceMapLine>>
    [] s = "remap.js" -> <<"import 'node:fs'", SourceMapLine>>
    [] s = "lib.ts" -> <<"export const l: number = 1">>
    [] s = "bad.ts" -> <<"import './oops'">>
    [] s = "nm/esm.js" -> <<"export default 1", SourceMapLine>>

\* modules the Emitter fails to transpile
EmitFails == {"lib.ts"}

\* Emitter::emit_parsed_source(specifier, media_type, source): JavaScript with
\* an inline source map
EmitParsedSource(s) ==
  CASE s = "main.ts" -> <<"import './util.ts'", "export const x = 1", SourceMapLine>>
    [] s = "util.ts" -> <<"export let y = 1", SourceMapLine>>
    [] s = "bad.ts" -> <<"import './oops'", SourceMapLine>>
    [] OTHER -> <<SourceMapLine>>

\* std::fs::read_to_string of a file of an npm package
FileContent(s) ==
  CASE s = "nm/cjs.js" -> <<"module.exports = 1">>
    [] s = "nm/esm.js" -> <<"export default 1", SourceMapLine>>

\* NodeCodeTranslator::translate_cjs_to_esm: the module is wrapped; reading
\* its re-exports needs the permissions
TranslateCjsToEsm(specifier, code, permissions) ==
  IF permissions = DynamicPermissions /\ specifier \in DynamicDenied
    THEN Err("Error", "Requires read access", <<specifier>>)
    ELSE [ok |-> TRUE,
          code |-> <<"const mod = require(import.meta.url)">> \o code \o <<"export default mod">>]

\* NodeCodeTranslator::esm_code_with_node_globals: the globals are prepended
EsmCodeWithNodeGlobals(specifier, code) ==
  [ok |-> TRUE, code |-> <<"const global = globalThis">> \o code]

\* MediaType::from_specifier for the files of an npm package
MediaTypeFromSpecifier(specifier) == "JavaScript"

\* code_without_source_map: a trailing inline source map is cut off
CodeWithoutSourceMap(code) ==
  IF Len(code) > 0 /\ code[Len(code)] = SourceMapLine
    THEN SubSeq(code, 1, Len(code) - 1)
    ELSE code

(***************************************************************************)
(* CliModuleLoader::load, lines 293-426 and 570-584.                       *)
(***************************************************************************)
LoadOk(code, found_url, media_type, path, free) ==
  [outcome |-> "ok", code |-> code, returned |-> code, found_url |-> found_url,
   media_type |-> media_type, path |-> path, free |-> free]

LoadErr(error, path, free) ==
  [outcome |-> "err", error |-> error, path |-> path, free |-> free]

LoadPanic(path) == [outcome |-> "panic", path |-> path, free |-> {}]

\* EsmCode with the declaration files handed to the Emitter like TypeScript
EsmCodeDeclarationsEmitted(specifier, media_type) ==
  CASE media_type \in {"JavaScript", "Unknown", "Cjs", "Mjs", "Json"} ->
         [ok |-> TRUE, code |-> Source(specifier), path |-> "source"]
    [] OTHER ->
         IF specifier \in EmitFails
           THEN Err("Error", "Unable to emit", <<specifier>>)
           ELSE [ok |-> TRUE, code |-> EmitParsedSource(specifier),
                 path |-> "emit_parsed_source"]

\* lines 320-342: the code of an Esm module by media type
EsmCode(specifier, media_type) ==
  CASE media_type \in {"JavaScript", "Unknown", "Cjs", "Mjs", "Json"} ->
         [ok |-> TRUE, code |-> Source(specifier), path |-> "source"]
    [] media_type \in {"Dts", "Dcts", "Dmts"} ->
         [ok |-> TRUE, code |-> <<>>, path |-> "default"]
    [] media_type \in {"TypeScript", "Mts", "Cts", "Jsx", "Tsx"} ->
         IF specifier \in EmitFails
           THEN Err("Error", "Unable to emit", <<specifier>>)
           ELSE [ok |-> TRUE, code |-> EmitParsedSource(specifier),
                 path |-> "emit_parsed_source"]

\* LoadPreparedModule that serves a module it does not find as an empty one
LoadPreparedModuleLenient(specifier, maybe_referrer) ==
  IF specifier \in GraphSnapshot /\ Module(specifier).kind = "Json"
    THEN LoadOk(Source(specifier), specifier, Module(specifier).media_type, "source", {})
    ELSE IF specifier \in GraphSnapshot /\ Module(specifier).kind = "Esm"
      THEN LET emitted == EsmCode(specifier, Module(specifier).media_type)
           IN IF emitted.ok
                THEN LoadOk(emitted.code, specifier, Module(specifier).media_type,
                            emitted.path, {specifier})
                ELSE LoadErr(emitted, "emit_parsed_source", {})
      ELSE LoadOk(<<>>, specifier, "Unknown", "graph", {})

\* LoadPreparedModule without the free of line 345
LoadPreparedModuleKeepsParsed(specifier, maybe_referrer) ==
  IF Scheme(specifier) = "node"
    THEN LoadPanic("unreachable")
    ELSE IF specifier \in GraphSnapshot /\ Module(specifier).kind = "Json"
      THEN LoadOk(Source(specifier), specifier, Module(specifier).media_type, "source", {})
      ELSE IF specifier \in GraphSnapshot /\ Module(specifier).kind = "Esm"
        THEN IF Module(specifier).media_type \in {"TsBuildInfo", "Wasm", "SourceMap"}
               THEN LoadPanic("media_type")
               ELSE LET emitted == EsmCode(specifier, Module(specifier).media_type)
                    IN IF emitted.ok
                         THEN LoadOk(emitted.code, specifier, Module(specifier).media_type,
                                     emitted.path, {})
                         ELSE LoadErr(emitted, "emit_parsed_source", {})
        ELSE LoadErr(
               Err("Error", "Loading unprepared module",
                   IF maybe_referrer = Null THEN <<specifier>>
                   ELSE <<specifier, "imported from", maybe_referrer>>),
               "graph", {})

\* load_prepared_module, lines 293-361
LoadPreparedModule(specifier, maybe_referrer) ==
  IF Scheme(specifier) = "node"
    THEN LoadPanic("unreachable")
    ELSE IF specifier \in GraphSnapshot /\ Module(specifier).kind = "Json"
      THEN LoadOk(Source(specifier), specifier, Module(specifier).media_type, "source", {})
      ELSE IF specifier \in GraphSnapshot /\ Module(specifier).kind = "Esm"
        THEN IF Module(specifier).media_type \in {"TsBuildInfo", "Wasm", "SourceMap"}
               THEN LoadPanic("media_type")
               ELSE LET emitted == EsmCode(specifier, Module(specifier).media_type)
                    IN IF emitted.ok
                         THEN LoadOk(emitted.code, specifier, Module(specifier).media_type,
                                     emitted.path, {specifier})
                         ELSE LoadErr(emitted, "emit_parsed_source", {})
        ELSE LoadErr(
               Err("Error", "Loading unprepared module",
                   IF maybe_referrer = Null THEN <<specifier>>
                   ELSE <<specifier, "imported from", maybe_referrer>>),
               "graph", {})

\* lines 369-404: a file of an npm package is read from disk and translated
LoadNpmFile(specifier, maybe_referrer, is_dynamic) ==
  IF specifier \in Unreadable
    THEN LoadErr(
           WithContext(Err("Error", "No such file or directory", <<>>), "Unable to load",
                       IF maybe_referrer = Null THEN <<specifier>>
                       ELSE <<specifier, "imported from", maybe_referrer>>),
           "disk", {})
    ELSE IF specifier \in cjs_resolutions
      THEN LET translated ==
                 TranslateCjsToEsm(specifier, FileContent(specifier),
                                   IF is_dynamic THEN loader.dynamic_permissions
                                                 ELSE loader.root_permissions)
           IN IF translated.ok
                THEN LoadOk(translated.code, specifier, MediaTypeFromSpecifier(specifier),
                            "translate_cjs_to_esm", {})
                ELSE LoadErr(translated, "translate_cjs_to_esm", {})
      ELSE LET with_globals == EsmCodeWithNodeGlobals(specifier, FileContent(specifier))
           IN IF with_globals.ok
                THEN LoadOk(with_globals.code, specifier, MediaTypeFromSpecifier(specifier),
                            "esm_code_with_node_globals", {})
                ELSE LoadErr(with_globals, "esm_code_with_node_globals", {})

\* LoadSync that throws the source map away whether or not a debugger is attached
LoadSyncAlwaysStrips(specifier, maybe_referrer, is_dynamic) ==
  LET code_source == IF InNpmPackage(specifier)
                       THEN LoadNpmFile(specifier, maybe_referrer, is_dynamic)
                       ELSE LoadPreparedModule(specifier, maybe_referrer)
  IN IF code_source.outcome # "ok"
       THEN code_source
       ELSE [code_source EXCEPT !.returned = CodeWithoutSourceMap(code_source.code)]

\* load_sync, lines 363-426: the ModuleSource handed to the engine; `code` is
\* what was produced, `returned` what the ModuleSource carries
LoadSync(specifier, maybe_referrer, is_dynamic) ==
  LET code_source == IF InNpmPackage(specifier)
                       THEN LoadNpmFile(specifier, maybe_referrer, is_dynamic)
                       ELSE LoadPreparedModule(specifier, maybe_referrer)
  IN IF code_source.outcome # "ok"
       THEN code_source
       ELSE [code_source EXCEPT
               !.returned = IF options.inspecting THEN code_source.code
                            ELSE CodeWithoutSourceMap(code_source.code)]

\* ModuleSource::new_with_redirect: the module type by media type (lines 418-421)
ModuleType(media_type) == IF media_type = "Json" THEN "Json" ELSE "JavaScript"

\* a call of load; `import_of` is the caller whose import is being loaded, if any
Load(specifier, maybe_referrer, is_dynamic, import_of) ==
  LET source == LoadSync(specifier, maybe_referrer, is_dynamic)
  IN /\ parsed_source_cache' = parsed_source_cache \ source.free
     /\ exited' = (source.outcome = "panic")
     /\ obs' = [op |-> "load", specifier |-> specifier, maybe_referrer |-> maybe_referrer,
                is_dynamic |-> is_dynamic, import_of |-> import_of,
                outcome |-> source.outcome, path |-> source.path,
                source |-> IF source.outcome = "ok"
                             THEN [module_type |-> ModuleType(source.media_type),
                                   code |-> source.returned, specifier |-> specifier,
                                   found_url |-> source.found_url]
                             ELSE [module_type |-> Null],
                produced |-> IF source.outcome = "ok" THEN source.code ELSE <<>>,
                error |-> IF source.outcome = "err" THEN source.error ELSE [ok |-> TRUE],
                recorded_cjs |-> specifier \in cjs_resolutions]

\* load called by the engine for any specifier
LoadCall(specifier, maybe_referrer, is_dynamic) ==
  /\ Ready
  /\ Load(specifier, maybe_referrer, is_dynamic, 0)
  /\ UNCHANGED <<loader, options, lockfile, graph, permits, type_checked, cjs_resolutions,
                 pc, call, work>>

(***************************************************************************)
(* SourceMapGetter::get_source_line, lines 637-659.                        *)
(***************************************************************************)
\* file names the error formatter asks about; the last is not a URL
FileNames == {"main.ts", "data.json", "remap.js", "ghost.ts", "npm:pkg", "./relative"}

\* deno_core::resolve_url(file_name)
ResolveUrl(file_name) ==
  IF file_name = "./relative"
    THEN Err("Error", "relative URL without a base", <<file_name>>)
    ELSE Ok(file_name)

None == [some |-> FALSE]
Some(string) == [some |-> TRUE, value |-> string]

\* the string of lines 652-655
OutOfBoundsWarning(line) ==
  <<"Warning", "Couldn't format source line: Line", line,
    "is out of bounds (source may have changed at runtime)">>

\* GetSourceLine that lets the line number equal to the count through
GetSourceLineOffByOne(file_name, line_number) ==
  LET url == ResolveUrl(file_name)
  IN IF ~url.ok \/ url.url \notin GraphSnapshot
       THEN None
       ELSE IF Module(url.url).kind \notin {"Esm", "Json"}
         THEN None
         ELSE LET lines == Source(url.url)
              IN IF line_number > Len(lines)
                   THEN Some(OutOfBoundsWarning(line_number + 1))
                   ELSE IF line_number = Len(lines)
                     THEN [some |-> FALSE, panic |-> "index out of bounds"]
                     ELSE Some(<<lines[line_number + 1]>>)

\* get_source_line, lines 637-659; the source is the sequence of the pieces
\* split('\n') gives, and line numbers count from zero
GetSourceLine(file_name, line_number) ==
  LET url == ResolveUrl(file_name)
  IN IF ~url.ok \/ url.url \notin GraphSnapshot
       THEN None
       ELSE IF Module(url.url).kind \notin {"Esm", "Json"}
         THEN None
         ELSE LET lines == Source(url.url)
              IN IF line_number >= Len(lines)
                   THEN Some(OutOfBoundsWarning(line_number + 1))
                   ELSE Some(<<lines[line_number + 1]>>)

\* source_map_from_code: the inline source map a code ends with, if any
SourceMapFromCode(code) ==
  IF Len(code) > 0 /\ code[Len(code)] = SourceMapLine
    THEN Some(<<"{}">>)
    ELSE None

\* get_source_map, lines 625-635: what load_prepared_module is asked, if
\* the file name is a URL of a scheme with emits
SourceMapLoad(file_name) ==
  LET specifier == ResolveUrl(file_name)
  IN IF ~specifier.ok
       THEN LoadErr(specifier, "resolve_url", {})
       ELSE IF Scheme(specifier.url) \notin {"wasm", "file", "http", "https", "data", "blob"}
         THEN LoadErr(Err("Error", "scheme", <<specifier.url>>), "scheme", {})
         ELSE LoadPreparedModule(specifier.url, Null)

\* a call of get_source_map by the error formatter; the load it makes frees
\* the parsed source like any other
GetSourceMapCall(file_name) ==
  /\ Ready
  /\ LET source == SourceMapLoad(file_name)
     IN /\ parsed_source_cache' = parsed_source_cache \ source.free
        /\ exited' = (source.outcome = "panic")
        /\ obs' = [op |-> "get_source_map", file_name |-> file_name,
                   outcome |-> source.outcome,
                   value |-> IF source.outcome = "ok" THEN SourceMapFromCode(source.code)
                             ELSE None]
  /\ UNCHANGED <<loader, options, lockfile, graph, permits, type_checked, cjs_resolutions,
                 pc, call, work>>

\* a call of get_source_line by the error formatter
GetSourceLineCall(file_name, line_number) ==
  /\ Ready
  /\ obs' = [op |-> "get_source_line", file_name |-> file_name,
             line_number |-> line_number, value |-> GetSourceLine(file_name, line_number)]
  /\ UNCHANGED <<loader, options, lockfile, graph, permits, type_checked, cjs_resolutions,
                 parsed_source_cache, pc, call, work, exited>>

(***************************************************************************)
(* CliModuleLoader::prepare_load, lines 586-621, and the engine that       *)
(* drives it: load is called for an import once its prepare_load resolved  *)
(* to Ok, and not at all when it resolved to an error.                     *)
(***************************************************************************)
\* the caller that is the JsRuntime of the main worker
Engine == 1

\* specifiers the engine imports as a root (main module or dynamic import)
PrepareLoadInputs == {"main.ts", "remap.js", "lib.ts", "bad.ts", "npm:broken", "nm/cjs.js"}

\* specifiers the engine asks load for, and the referrers it names
LoadSpecifiers ==
  {"main.ts", "remap.js", "data.json", "types.d.ts", "lib.ts", "ghost.ts",
   "node:fs", "npm:pkg", "nm/cjs.js", "nm/esm.js", "nm/gone.js"}
MaybeReferrers == {Null, "main.ts"}

\* PrepareLoad that keeps the root permissions for a dynamic import
PrepareLoadRootKept(p, specifier, is_dynamic) ==
  IF InNpmPackage(specifier)
    THEN /\ Ready
         /\ pc[p] = "idle"
         /\ Goes(p, "ok")
         /\ call' = [call EXCEPT ![p] =
                       [NoCall EXCEPT !.via = "prepare_load", !.roots = {specifier},
                                      !.is_dynamic = is_dynamic]]
         /\ UNCHANGED <<loader, options, lockfile, graph, permits, type_checked, work, exited>>
         /\ UNCHANGED loader_vars
    ELSE PrepareModuleLoad(p, {specifier}, is_dynamic, LoaderLib,
                           loader.root_permissions,
                           loader.dynamic_permissions, "prepare_load")

\* prepare_load, lines 586-621
PrepareLoad(p, specifier, is_dynamic) ==
  IF InNpmPackage(specifier)
    THEN /\ Ready
         /\ pc[p] = "idle"
         /\ Goes(p, "ok")
         /\ call' = [call EXCEPT ![p] =
                       [NoCall EXCEPT !.via = "prepare_load", !.roots = {specifier},
                                      !.is_dynamic = is_dynamic]]
         /\ UNCHANGED <<loader, options, lockfile, graph, permits, type_checked, work, exited>>
         /\ UNCHANGED loader_vars
    ELSE PrepareModuleLoad(p, {specifier}, is_dynamic, LoaderLib,
                           IF is_dynamic THEN loader.dynamic_permissions
                                         ELSE loader.root_permissions,
                           loader.dynamic_permissions, "prepare_load")

\* the modules of the import of caller p that the engine has still to load:
\* the executable and JSON modules its roots reach in the committed graph
ToLoad(p, loaded) ==
  {s \in Segment(GraphSnapshot, call[p].roots) : Module(s).kind \in {"Esm", "Json"}} \ loaded

\* the import of caller p goes on after a load: to the next module, or it is
\* over (everything loaded, or the load failed)
ImportGoesOn(p, loaded) ==
  IF obs'.outcome = "ok" /\ ToLoad(p, loaded) # {}
    THEN /\ Goes(p, "loading")
         /\ call' = [call EXCEPT ![p].loaded = loaded]
    ELSE /\ Goes(p, "idle")
         /\ call' = [call EXCEPT ![p] = NoCall]

\* the JsRuntime: prepare_load resolved to Ok(()), so load is called for the root
EngineLoad(p) ==
  /\ ~exited
  /\ obs = NoObs
  /\ pc[p] = "ok"
  /\ call[p].via = "prepare_load"
  /\ LET root == CHOOSE s \in call[p].roots : TRUE
     IN /\ Load(root, Null, call[p].is_dynamic, p)
        /\ ImportGoesOn(p, {root})
  /\ UNCHANGED <<loader, options, lockfile, graph, permits, type_checked, cjs_resolutions, work>>

\* the JsRuntime: load is called for the next module the root reaches
EngineLoadDependency(p) ==
  /\ Ready
  /\ pc[p] = "loading"
  /\ LET next == CHOOSE s \in ToLoad(p, call[p].loaded) : TRUE
     IN /\ Load(next, CHOOSE s \in call[p].roots : TRUE, call[p].is_dynamic, p)
        /\ ImportGoesOn(p, call[p].loaded \cup {next})
  /\ UNCHANGED <<loader, options, lockfile, graph, permits, type_checked, cjs_resolutions, work>>

\* what the engine's calls of prepare_load go through when no lockfile is
\* configured and type checking is off
EnginePrepareStep(p) ==
  \/ AcquirePermit(p)
  \/ BuildStep(p)
  \/ BuildFail(p)
  \/ BuildDoneValidate(p)
  \/ CommitAndGate(p)
  \/ Return(p)

(***************************************************************************)
(* ResolveSpec: one engine that imports roots and resolves specifiers.     *)
(***************************************************************************)
ResolveInit ==
  /\ options \in [type_check : {FALSE}, reload : {FALSE}, repl : BOOLEAN, inspecting : {FALSE}]
  /\ lockfile = NoLockfile
  /\ InitShared

ResolveNext ==
  \/ \E s \in PrepareLoadInputs, d \in BOOLEAN : PrepareLoad(Engine, s, d)
  \/ EnginePrepareStep(Engine)
  \/ EngineLoad(Engine)
  \/ EngineLoadDependency(Engine)
  \/ \E s \in ImportSpecifiers, r \in Referrers, k \in ResolutionKinds : ResolveCall(s, r, k)
  \/ Consume

ResolveSpec == ResolveInit /\ [][ResolveNext]_vars

(***************************************************************************)
(* LoadSpec: one engine that imports roots, with or without type checking, *)
(* and loads modules.                                                      *)
(***************************************************************************)
\* the resolve calls that make the NodeResolver report a CommonJS module
CjsImports == {<<"./cjs.js", "nm/esm.js">>, <<"npm:pkg", "main.ts">>}

LoadInit ==
  /\ options \in [type_check : BOOLEAN, reload : {FALSE}, repl : {FALSE}, inspecting : BOOLEAN]
  /\ lockfile = NoLockfile
  /\ InitShared

LoadNext ==
  \/ \E s \in PrepareLoadInputs, d \in BOOLEAN : PrepareLoad(Engine, s, d)
  \/ EnginePrepareStep(Engine)
  \/ TypeCheckReturn(Engine)
  \/ EngineLoad(Engine)
  \/ EngineLoadDependency(Engine)
  \/ \E i \in CjsImports : ResolveCall(i[1], i[2], "Import")
  \/ \E s \in LoadSpecifiers, r \in MaybeReferrers, d \in BOOLEAN : LoadCall(s, r, d)
  \/ \E f \in FileNames : GetSourceMapCall(f)
  \/ \E f \in FileNames, n \in 0..MaxLine : GetSourceLineCall(f, n)
  \/ Consume

LoadSpec == LoadInit /\ [][LoadNext]_vars

(***************************************************************************)
(* Properties of prepare_module_load under concurrent callers (Spec).      *)
(***************************************************************************)
\* every module a build from `roots` records
BuildClosure(roots) == Reach(GraphSpecifiers, roots)

\* C1 (atomic visibility): a graph() call made while a prepare holds its
\* permit returns the snapshot committed before that prepare, whatever the
\* prepare has already added to its working copy; the only step that changes
\* what graph() returns is the commit, which publishes the previous snapshot
\* plus all the modules of the build at once; so no graph() call returns a
\* graph with only some of them.
C1_AtomicVisibility ==
  /\ [](obs.op = "graph" =>
          /\ \A p \in Callers : pc[p] \in InPermit => obs.value = call[p].base
          /\ OkTargets(obs.value) \subseteq obs.value)
  /\ [][graph' # graph =>
          \E p \in Callers :
            /\ pc[p] = "commit"
            /\ pc'[p] \in {"check", "ok"}
            /\ graph = call[p].base
            /\ graph' = call[p].base \cup BuildClosure(call[p].roots)]_vars

\* C1 witness: graph() is called while a prepare has added modules to its
\* working copy and has not committed
C1_Witness ==
  /\ obs.op = "graph"
  /\ \E p \in Callers : pc[p] \in InPermit /\ work[p] # call[p].base /\ obs.value = call[p].base

\* C2 (single writer): at most one permit is outstanding, exactly the callers
\* between acquire and commit hold one, and so two callers are never both in
\* their build/validate/lockfile/commit section; a caller that asked while
\* another holds the permit is still waiting.
C2_SingleWriter ==
  /\ Cardinality(permits) <= 1
  /\ \A p \in Callers : pc[p] \in InPermit <=> p \in permits
  /\ \A p, q \in Callers : p # q /\ pc[p] \in InPermit => pc[q] \notin InPermit

\* C2 witness: one caller waits for the permit while another holds it
C2_Witness ==
  \E p, q \in Callers : p # q /\ pc[p] = "acquire" /\ pc[q] \in InPermit /\ work[q] # graph

\* C3 (failure before commit): when prepare_module_load returns a build,
\* validation or lockfile-write error, the committed graph is the one from
\* before the call, the caller holds no permit, and a permit can be acquired.
C3_FailureLeavesGraph ==
  \A p \in Callers :
    pc[p] \in PreCommitErrors =>
      /\ graph = call[p].base
      /\ GraphSnapshot = call[p].base
      /\ p \notin permits
      /\ PermitAvailable

\* C3 witness: a call fails on the lockfile write with a non-empty graph
\* committed before it, while another caller waits for the permit
C3_Witness ==
  \E p, q \in Callers :
    p # q /\ pc[p] = "err_write" /\ graph # {} /\ pc[q] = "acquire" /\ PermitAvailable

\* C4 (idempotent check-gating): a prepare_module_load(R, L) that succeeds
\* with type checking enabled leaves (R, L) registered; nothing is ever removed
\* from the registry; and the TypeChecker is invoked only for an (R, L) that is
\* not registered, the reload flag notwithstanding.  Hence no call for (R, L)
\* after a success invokes it again.
C4_IdempotentCheckGating ==
  /\ [](\A p \in Callers :
          pc[p] = "ok" /\ options.type_check => IsTypeChecked(call[p].roots, call[p].lib))
  /\ [][type_checked \subseteq type_checked']_vars
  /\ [][\A p \in Callers :
          pc[p] # "check" /\ pc'[p] = "check" =>
            ~IsTypeChecked(call[p].roots, call[p].lib)]_vars

\* C4 witness: with the reload flag set, a call for an (R, L) that is already
\* registered succeeds without a check of its own
C4_Witness ==
  \E p \in Callers :
    /\ pc[p] = "ok"
    /\ options.type_check /\ options.reload
    /\ call[p].checked = Null
    /\ IsTypeChecked(call[p].roots, call[p].lib)

\* C10 (lockfile gating): with a lockfile, a call reaches the write and the
\* commit only after graph_lock_or_exit verified its graph and found no
\* mismatch; a graph with a mismatching module is never published and the
\* process is terminated with the call still before its commit; the lockfile
\* reaches the disk only in the write step of a verified call; a call whose
\* write failed returns the error with the committed graph unchanged.
C10_LockfileGating ==
  /\ [](\A p \in Callers :
          /\ lockfile.configured /\ pc[p] \in {"write", "commit"} =>
               call[p].verified /\ work[p] \cap lockfile.stale = {}
          /\ pc[p] = "err_write" => graph = call[p].base /\ ~lockfile.persisted)
  /\ [](lockfile.configured => graph \cap lockfile.stale = {})
  /\ [](exited => \E p \in Callers :
                    pc[p] = "lock" /\ work[p] \cap lockfile.stale # {} /\ graph = call[p].base)
  /\ [][lockfile' # lockfile /\ lockfile'.persisted =>
          \E p \in Callers : pc[p] = "write" /\ call[p].verified /\ pc'[p] = "commit"]_vars
  /\ [][graph' # graph /\ lockfile.configured =>
          \E p \in Callers : pc[p] = "commit" /\ call[p].verified /\ lockfile.persisted]_vars

\* C10 witness: the process was terminated on a mismatch, after an earlier
\* call had verified, written and committed
C10_Witness == exited /\ graph # {}

(***************************************************************************)
(* Properties of prepare_load and load (LoadSpec).                         *)
(***************************************************************************)
\* the caller whose import the load observed in obs belongs to
ImportOf(o) == IF o.op = "load" /\ o.import_of \in Callers THEN {o.import_of} ELSE {}

\* C5 (type-check error aborts): with type checking enabled, when the
\* TypeChecker finds an error in the segment of the roots, the call returns
\* the error, (roots, lib) is not registered, and the import ends there with
\* no load: every load the engine makes for an import, of the root or of a
\* dependency, is made after its prepare_load returned Ok, and then the
\* segment of the root has passed the check and is registered.
C5_TypeCheckAborts ==
  /\ [][\A p \in Callers :
          /\ pc[p] = "check" /\ pc'[p] # "check"
               /\ ~TypeCheckOk(Segment(graph, call[p].roots))
               => pc'[p] = "err_check" /\ type_checked' = type_checked
          /\ pc[p] = "err_check" /\ pc'[p] # "err_check"
               => pc'[p] = "idle" /\ obs' = obs
          /\ obs' # obs /\ p \in ImportOf(obs')
               => /\ pc[p] \in {"ok", "loading"}
                  /\ options.type_check /\ ~InNpmPackage(obs'.specifier)
                       => /\ TypeCheckOk(Segment(graph, call[p].roots))
                          /\ IsTypeChecked(call[p].roots, call[p].lib)]_vars
  /\ [](\A p \in Callers :
          pc[p] = "err_check" =>
            /\ ~IsTypeChecked(call[p].roots, call[p].lib)
            /\ ~TypeCheckOk(Segment(graph, call[p].roots)))

\* C5 witness: the import of main.ts, whose dependency util.ts has a type
\* error, has come back from prepare_load with the error of the check
C5_Witness ==
  \E p \in Callers :
    /\ pc[p] = "err_check"
    /\ call[p].via = "prepare_load"
    /\ call[p].roots = {"main.ts"}
    /\ "util.ts" \in graph

\* C8 (CJS stickiness): nothing is ever removed from the CjsResolutionStore;
\* a resolve that returns a file the NodeResolver classified as CommonJS
\* leaves it in the store; and every load of a specifier of the npm realm
\* that is in the store goes through translate_cjs_to_esm, never through
\* esm_code_with_node_globals.
C8_CjsStickiness ==
  /\ [][cjs_resolutions \subseteq cjs_resolutions']_vars
  /\ [](obs.op = "resolve" /\ obs.value.ok /\ obs.value.url \in CommonJsFiles
          => obs.value.url \in cjs_resolutions)
  /\ [](obs.op = "load" /\ InNpmPackage(obs.specifier) /\ obs.specifier \in cjs_resolutions
          => obs.path = "translate_cjs_to_esm")

\* C8 witness: a module of the npm realm that is in the store is loaded
\* through the translation while the graph holds modules prepared meanwhile
C8_Witness ==
  /\ obs.op = "load"
  /\ obs.specifier = "nm/cjs.js"
  /\ obs.specifier \in cjs_resolutions
  /\ obs.outcome = "ok"
  /\ obs.path = "translate_cjs_to_esm"
  /\ graph # {}

\* the string s occurs in the tuple t
Names(t, s) == \E i \in DOMAIN t : t[i] = s

\* a load that fails with the missing-module error, naming what it must
MissingModuleError(o) ==
  /\ o.outcome = "err"
  /\ o.error.message = "Loading unprepared module"
  /\ Names(o.error.names, o.specifier)
  /\ o.maybe_referrer # Null => Names(o.error.names, o.maybe_referrer)

PermissionsOf(kind) == IF kind = "DynamicImport" THEN DynamicPermissions ELSE RootPermissions

\* what the NodeResolver alone makes of (specifier, referrer)
NodeDecision(specifier, referrer, kind) ==
  LET r == NodeResolve(specifier, referrer, PermissionsOf(kind))
  IN CASE r.tag = "Err" -> [ok |-> FALSE, message |-> r.message]
       [] r.tag = "None" -> [ok |-> FALSE, message |-> "not found"]
       [] r.tag = "BuiltIn" ->
            IF r.specifier \in SupportedBuiltins
              THEN Ok(ResolveBuiltinNodeModule(r.specifier).url)
              ELSE [ok |-> FALSE, message |-> ResolveBuiltinNodeModule(r.specifier).message]
       [] OTHER -> Ok(r.specifier)

\* the value v is the decision d: the same specifier, or an error with the same message
Decided(v, d) ==
  IF d.ok THEN v = d ELSE ~v.ok /\ v.message = d.message

\* C6 (npm-realm referrer): a resolve whose referrer lies in the npm realm
\* returns what the NodeResolver decides for (specifier, referrer) and
\* consults nothing else: not the graph, not the generic resolver, not the
\* builtin-prefix rule, whatever edge the graph records for the referrer and
\* whatever the import map says.
C6_NpmReferrerNodeOnly ==
  obs.op = "resolve" /\ InNpmPackage(obs.referrer)
    => /\ obs.consulted = {"node_resolver"}
       /\ obs.rule = "npm_referrer"
       /\ Decided(obs.value, NodeDecision(obs.specifier, obs.referrer, obs.kind))

\* C6 witness: "mapped" is resolved from nm/esm.js, which is in the graph
\* with an edge for "mapped" to lib.ts, the module the import map names too;
\* the answer is the file the NodeResolver found
C6_Witness ==
  /\ obs.op = "resolve"
  /\ obs.specifier = "mapped"
  /\ obs.referrer = "nm/esm.js"
  /\ "nm/esm.js" \in graph
  /\ MaybeResolved(graph, "nm/esm.js", "mapped") = ResOk("lib.ts")
  /\ GenericResolve("mapped", "nm/esm.js") = Ok("lib.ts")
  /\ obs.value = Ok("nm/esm.js")

\* the builtin-namespace result for a specifier with the node: prefix
BuiltinResult(v, specifier) ==
  LET b == ResolveBuiltinNodeModule(StripNodePrefix(specifier))
  IN IF b.ok THEN v = b ELSE ~v.ok /\ v.message = b.message

\* what the committed graph records for the specifier on the referrer string
EdgeOf(referrer, specifier) ==
  IF ResolveUrlOrPath(referrer).ok
    THEN MaybeResolved(graph, ResolveUrlOrPath(referrer).url, specifier)
    ELSE ResNone

\* C7 as stated (builtin prefix always wins): every resolve of a specifier
\* with the node: prefix returns the builtin-namespace result.
C7_BuiltinAlways ==
  obs.op = "resolve" /\ HasNodePrefix(obs.specifier)
    => BuiltinResult(obs.value, obs.specifier)

\* C7 (builtin prefix): a resolve of a specifier with the node: prefix from a
\* referrer outside the npm realm returns the builtin-namespace result
\* whenever the committed graph records no Ok or Err edge for the specifier
\* on the referrer, be the referrer in the graph or not, parsable or not.  A
\* recorded edge comes first: an Ok edge returns what its target gives (its
\* own specifier for an Esm or Json module, the builtin for a Node module),
\* an Err edge its diagnostic.
C7_BuiltinUnlessEdge ==
  obs.op = "resolve" /\ HasNodePrefix(obs.specifier)
    /\ ~(ResolveUrlOrPath(obs.referrer).ok /\ InNpmPackage(ResolveUrlOrPath(obs.referrer).url))
    => LET edge == EdgeOf(obs.referrer, obs.specifier)
       IN CASE edge.tag = "None" -> BuiltinResult(obs.value, obs.specifier)
            [] edge.tag = "Err" -> ~obs.value.ok /\ obs.value.message = edge.diagnostic
            [] edge.tag = "Ok" ->
                 IF edge.specifier \in graph /\ Module(edge.specifier).kind = "Node"
                   THEN obs.value = ResolveBuiltinNodeModule(Module(edge.specifier).module_name)
                   ELSE IF edge.specifier \in graph
                           /\ Module(edge.specifier).kind \in {"Esm", "Json"}
                     THEN obs.value = Ok(edge.specifier)
                     ELSE TRUE

\* C7 witness: "node:fs" is resolved from data.json, a module of the graph
\* that records no edges, and the builtin is returned
C7_Witness ==
  /\ obs.op = "resolve"
  /\ obs.specifier = "node:fs"
  /\ obs.referrer = "data.json"
  /\ "data.json" \in graph
  /\ obs.rule = "builtin_prefix"
  /\ obs.value = Ok("ext:deno_node/fs.ts")


\* a line that is not an inline source map
NotSourceMap(line) == line # SourceMapLine

\* C11 (source-map gating): a load that succeeds returns, with no debugger
\* attached, the produced code without its inline source map, and with a
\* debugger attached exactly the produced code; for a TypeScript module the
\* produced code is the Emitter's output, which ends in its source map.
C11_SourceMapGating ==
  obs.op = "load" /\ obs.outcome = "ok"
    => /\ IF options.inspecting
            THEN obs.source.code = obs.produced
            ELSE obs.source.code = SelectSeq(obs.produced, NotSourceMap)
       /\ obs.specifier \in graph /\ Module(obs.specifier).kind = "Esm"
            /\ Module(obs.specifier).media_type = "TypeScript"
            => /\ obs.produced = EmitParsedSource(obs.specifier)
               /\ obs.produced[Len(obs.produced)] = SourceMapLine
               /\ options.inspecting => obs.source.code = EmitParsedSource(obs.specifier)

\* C11 witness: with a debugger attached, main.ts is loaded and the code
\* returned is the Emitter's output with its source map
C11_Witness ==
  /\ obs.op = "load"
  /\ obs.outcome = "ok"
  /\ obs.specifier = "main.ts"
  /\ options.inspecting
  /\ obs.source.code = EmitParsedSource("main.ts")
  /\ ~(\A i \in DOMAIN obs.source.code : NotSourceMap(obs.source.code[i]))


\* media types of type declarations
DeclarationMediaTypes == {"Dts", "Dcts", "Dmts"}

\* C12 (declaration-only load): a load of a module of the committed graph
\* whose media type is a type declaration succeeds with empty code, produced
\* by the Default branch and not by the Emitter, whatever the source of the
\* module and whether or not a debugger is attached.
C12_DeclarationOnlyLoad ==
  obs.op = "load" /\ obs.specifier \in graph /\ ~InNpmPackage(obs.specifier)
    /\ Module(obs.specifier).kind = "Esm"
    /\ Module(obs.specifier).media_type \in DeclarationMediaTypes
    => /\ obs.outcome = "ok"
       /\ obs.source.code = <<>>
       /\ obs.produced = <<>>
       /\ obs.path = "default"
       /\ obs.source.module_type = "JavaScript"

\* C12 witness: with a debugger attached, a declaration file whose source is
\* not empty and ends in a source map is loaded
C12_Witness ==
  /\ obs.op = "load"
  /\ obs.specifier = "ambient.d.mts"
  /\ Source(obs.specifier) # <<>>
  /\ options.inspecting
  /\ obs.outcome = "ok"
  /\ obs.source.code = <<>>


\* the file is an Esm or Json module of the committed graph
HasSource(file_name) ==
  /\ ResolveUrl(file_name).ok
  /\ file_name \in graph
  /\ Module(file_name).kind \in {"Esm", "Json"}

\* C13 (out-of-range line lookup): for a file that is a module with source in
\* the committed graph, get_source_line returns the warning string, naming the
\* one-based line, when the zero-based line number is at least the number of
\* lines, and the literal line when it is below; for any other file name it
\* returns None; it never fails.
C13_SourceLineLookup ==
  obs.op = "get_source_line"
    => IF HasSource(obs.file_name)
         THEN IF obs.line_number >= Len(Source(obs.file_name))
                THEN obs.value = Some(OutOfBoundsWarning(obs.line_number + 1))
                ELSE obs.value = Some(<<Source(obs.file_name)[obs.line_number + 1]>>)
         ELSE obs.value = None

\* C13 witness: the line number equal to the number of lines of main.ts is
\* asked for, and the warning comes back
C13_Witness ==
  /\ obs.op = "get_source_line"
  /\ obs.file_name = "main.ts"
  /\ "main.ts" \in graph
  /\ obs.line_number = Len(Source("main.ts"))
  /\ obs.value = Some(OutOfBoundsWarning(Len(Source("main.ts")) + 1))


\* the build of p is complete and its working graph does not validate
BuiltInvalid(p) ==
  /\ pc[p] = "build"
  /\ Pending(work[p], call[p].roots) = {}
  /\ ~GraphValid(work[p], call[p].roots)

\* C14 (validation hard stop): when the graph built by a call fails
\* validation, the next step of the call returns the validation error: the
\* lockfile is neither verified nor written, the committed graph and the
\* registry of checked roots stay as they were, the working copy is dropped
\* with the permit, and the TypeChecker has not been invoked.
C14_ValidationHardStop ==
  [][\A p \in Callers :
       BuiltInvalid(p) /\ pc'[p] # pc[p]
         => /\ pc'[p] = "err_valid"
            /\ lockfile' = lockfile
            /\ call'[p].verified = FALSE
            /\ call'[p].checked = Null
            /\ graph' = graph
            /\ graph' = call'[p].base
            /\ type_checked' = type_checked
            /\ work'[p] = {}
            /\ p \notin permits']_vars

\* C14 witness: a call returns the validation error with a lockfile
\* configured and type checking enabled, after an earlier commit
C14_Witness ==
  \E p \in Callers :
    /\ pc[p] = "err_valid"
    /\ lockfile.configured /\ lockfile.persisted
    /\ options.type_check
    /\ graph # {}
    /\ ~call[p].verified /\ call[p].checked = Null


\* the reload argument of the check, lines 187-188
ReloadArgument(p) ==
  options.reload /\ ~(call[p].roots \subseteq call[p].reload_exclusions)

\* the check is invoked by this step of p
InvokesCheck(p) == pc[p] = "commit" /\ pc'[p] = "check"

\* p gets the permit in this step
Acquires(p) == pc[p] = "acquire" /\ pc'[p] = "build"

\* C15 as claimed (reload exclusions): the TypeChecker is passed reload = true
\* exactly when the reload flag is set and a root is outside the exclusion
\* snapshot, and the snapshot is the graph from before the call waited for its
\* permit, without what other calls committed during the wait: of the roots, it
\* holds those that were in the graph when the call was made.
C15_SnapshotBeforePermit ==
  [][\A p \in Callers :
       /\ InvokesCheck(p) => call'[p].reload = ReloadArgument(p)
       /\ Acquires(p) /\ ReloadMatters
            => call'[p].reload_exclusions \cap call[p].roots = call[p].entry]_vars

\* C15 amended (reload exclusions): the TypeChecker is passed reload = true
\* exactly when the reload flag is set and a root is outside the exclusion
\* snapshot, and the snapshot is the committed graph at the moment the permit
\* is acquired: what other calls committed while this call waited is part of it.
C15_SnapshotAtPermit ==
  [][\A p \in Callers :
       /\ InvokesCheck(p) => call'[p].reload = ReloadArgument(p)
       /\ Acquires(p) => /\ call'[p].reload_exclusions = graph
                         /\ call[p].entry \subseteq call'[p].reload_exclusions]_vars

\* C15 witness: with the reload flag set, the TypeChecker is invoked with
\* reload = false for roots of which one was not in the graph when the call
\* was made: another call committed it during the wait
C15_Witness ==
  \E p \in Callers :
    /\ pc[p] = "check"
    /\ options.reload
    /\ ~call[p].reload
    /\ call[p].entry # call[p].roots


\* the roots in the graph whose segment does not pass the check
FailingRoots(g) == {r \in g : ~TypeCheckOk(Segment(g, {r}))}

\* C16 (commit survives a failed check): the working copy is published
\* before the TypeChecker is invoked; a check that fails leaves the committed
\* graph as it is, with the modules of the call in it, and leaves (roots, lib)
\* out of the registry; and with type checking enabled, load() of a module
\* with source that such a root reaches returns its code.
C16_CommitSurvivesCheckFailure ==
  /\ [][\A p \in Callers :
          /\ pc[p] = "commit" /\ pc'[p] = "check"
               => graph' = work[p] /\ Segment(graph', call'[p].roots) # {}
          /\ pc[p] = "check" /\ pc'[p] = "err_check"
               => /\ graph' = graph
                  /\ type_checked' = type_checked]_vars
  /\ [](\A p \in Callers :
          pc[p] = "err_check" =>
            /\ call[p].roots \subseteq graph
            /\ Segment(graph, call[p].roots) \subseteq graph
            /\ ~IsTypeChecked(call[p].roots, call[p].lib))
  /\ [](obs.op = "load" /\ options.type_check
          /\ (\E r \in FailingRoots(graph) :
                /\ ~IsTypeChecked({r}, LoaderLib)
                /\ obs.specifier \in Segment(graph, {r}))
          /\ Module(obs.specifier).kind \in {"Esm", "Json"}
          /\ obs.specifier \notin EmitFails
          => /\ obs.outcome = "ok"
             /\ obs.source.found_url = obs.specifier)

\* C16 witness: the import of main.ts has failed its check and the engine is
\* idle again; data.json, which that import added, is loaded
C16_Witness ==
  /\ options.type_check
  /\ pc[Engine] = "idle"
  /\ "main.ts" \in graph
  /\ ~IsTypeChecked({"main.ts"}, LoaderLib)
  /\ "remap.js" \notin graph
  /\ obs.op = "load" /\ obs.specifier = "data.json" /\ obs.outcome = "ok"


\* what the NodeResolver alone makes of the package reference of an Npm module
NpmReferenceDecision(nv_reference, kind) ==
  LET r == ResolveNpmReference(nv_reference, PermissionsOf(kind))
  IN CASE r.tag = "Err" -> [ok |-> FALSE, message |-> r.message]
       [] r.tag = "None" -> [ok |-> FALSE, message |-> "not found"]
       [] r.tag = "BuiltIn" ->
            IF r.specifier \in SupportedBuiltins
              THEN Ok(ResolveBuiltinNodeModule(r.specifier).url)
              ELSE [ok |-> FALSE, message |-> ResolveBuiltinNodeModule(r.specifier).message]
       [] OTHER -> Ok(r.specifier)

\* the resolve observed has a referrer outside the npm realm whose module
\* records an Ok edge for the specifier
OkEdgeResolved ==
  /\ obs.op = "resolve"
  /\ ResolveUrlOrPath(obs.referrer).ok
  /\ ~InNpmPackage(ResolveUrlOrPath(obs.referrer).url)
  /\ EdgeOf(obs.referrer, obs.specifier).tag = "Ok"

NpmReqDecision(reference, kind) ==
  LET r == ResolveNpmReqReference(reference, PermissionsOf(kind))
  IN CASE r.tag = "Err" -> [ok |-> FALSE, message |-> r.message]
       [] r.tag = "None" -> [ok |-> FALSE, message |-> "not found"]
       [] r.tag = "BuiltIn" ->
            IF r.specifier \in SupportedBuiltins
              THEN Ok(ResolveBuiltinNodeModule(r.specifier).url)
              ELSE [ok |-> FALSE, message |-> ResolveBuiltinNodeModule(r.specifier).message]
       [] OTHER -> Ok(r.specifier)

\* the resolve observed was decided by none of the earlier rules: its
\* referrer, if parsable, is outside the npm realm and records no Ok or Err
\* edge for the specifier, and the specifier has no node: prefix
GenericPathReached ==
  /\ obs.op = "resolve"
  /\ ~HasNodePrefix(obs.specifier)
  /\ ResolveUrlOrPath(obs.referrer).ok
       => /\ ~InNpmPackage(ResolveUrlOrPath(obs.referrer).url)
          /\ EdgeOf(obs.referrer, obs.specifier).tag = "None"

\* the referrer the generic Resolver is given
ReferrerUsed ==
  IF obs.referrer = "" /\ options.repl THEN ReplReferrer ELSE ResolveUrlOrPath(obs.referrer)

\* the specifier the REPL probes for a package requirement: the resolved one
\* or, when the Resolver failed, the raw one if it parses
ReplCandidate ==
  LET resolution == GenericResolve(obs.specifier, ReferrerUsed.url)
  IN IF resolution.ok THEN resolution.url
     ELSE IF ParsesAsUrl(obs.specifier) THEN obs.specifier ELSE Null

\* C19 (REPL-only package-requirement fallback): a resolve that reaches the
\* generic path fails with the referrer's parse error, before any resolver is
\* asked, when the referrer cannot be parsed (in the REPL an empty referrer
\* is first replaced by the pseudo-file referrer); outside the REPL it
\* returns exactly the generic Resolver's outcome and the NodeResolver is not
\* asked; in the REPL the NodeResolver's requirement resolution decides
\* exactly when the resolved specifier, or the raw one if the Resolver failed,
\* is a package requirement, and the Resolver's outcome is returned otherwise.
C19_ReplOnlyFallback ==
  GenericPathReached
    => IF ~ReferrerUsed.ok
         THEN /\ obs.value = ResolveUrlOrPath(obs.referrer)
              /\ obs.consulted \cap {"resolver", "node_resolver"} = {}
         ELSE IF options.repl /\ ReplCandidate # Null /\ IsNpmPackageReq(ReplCandidate)
           THEN /\ "node_resolver" \in obs.consulted
                /\ Decided(obs.value, NpmReqDecision(ReplCandidate, obs.kind))
           ELSE /\ obs.value = GenericResolve(obs.specifier, ReferrerUsed.url)
                /\ "resolver" \in obs.consulted
                /\ "node_resolver" \notin obs.consulted

\* C19 witness: in the REPL, "npm:blocked" is resolved from the empty
\* referrer; the generic Resolver fails on it with the pseudo-file referrer,
\* the raw specifier is a package requirement, and the file the NodeResolver
\* finds for it is returned
C19_Witness ==
  /\ options.repl
  /\ GenericPathReached
  /\ obs.specifier = "npm:blocked" /\ obs.referrer = ""
  /\ ~GenericResolve("npm:blocked", ReplReferrer.url).ok
  /\ "node_resolver" \in obs.consulted
  /\ obs.value = Ok("nm/esm.js")


\* the permission set an operation is to use
ScopedPermissions(dynamic) == IF dynamic THEN DynamicPermissions ELSE RootPermissions

\* what a result of the NodeResolver becomes
NodeOutcome(r) ==
  CASE r.tag = "Err" -> [ok |-> FALSE, message |-> r.message]
    [] r.tag = "None" -> [ok |-> FALSE, message |-> "not found"]
    [] r.tag = "BuiltIn" ->
         IF r.specifier \in SupportedBuiltins
           THEN Ok(ResolveBuiltinNodeModule(r.specifier).url)
           ELSE [ok |-> FALSE, message |-> ResolveBuiltinNodeModule(r.specifier).message]
    [] OTHER -> Ok(r.specifier)

\* the call of the NodeResolver the resolve observed comes to, made with
\* the given permissions
NodeResolverCall(permissions) ==
  IF InNpmPackage(obs.referrer)
    THEN NodeResolve(obs.specifier, obs.referrer, permissions)
    ELSE IF OkEdgeResolved
      THEN ResolveNpmReference(
             Module(EdgeOf(obs.referrer, obs.specifier).specifier).nv_reference, permissions)
      ELSE ResolveNpmReqReference(ReplCandidate, permissions)

\* C20 (permission scoping): the sets the loader stores are never changed;
\* a resolve that asks the NodeResolver gets what the NodeResolver decides
\* under the dynamic set for kind DynamicImport and under the root set
\* otherwise; a load that translates CommonJS succeeds exactly when the
\* translation does under the dynamic set for is_dynamic and under the root
\* set otherwise; and prepare_load hands prepare_module_load the dynamic
\* set as dynamic permissions and, as root permissions, the dynamic set for
\* is_dynamic and the root set otherwise.
C20_PermissionScoping ==
  /\ loader = [root_permissions |-> RootPermissions,
               dynamic_permissions |-> DynamicPermissions]
  /\ obs.op = "resolve" /\ "node_resolver" \in obs.consulted
       => Decided(obs.value,
                  NodeOutcome(NodeResolverCall(ScopedPermissions(obs.kind = "DynamicImport"))))
  /\ obs.op = "load" /\ obs.path = "translate_cjs_to_esm"
       => (obs.outcome = "ok")
            = TranslateCjsToEsm(obs.specifier, FileContent(obs.specifier),
                                ScopedPermissions(obs.is_dynamic)).ok
  /\ \A p \in Callers :
       call[p].via = "prepare_load" /\ pc[p] \in {"acquire", "build"}
         => /\ call[p].dynamic_permissions = DynamicPermissions
            /\ call[p].root_permissions = ScopedPermissions(call[p].is_dynamic)

\* C20 witness: "npm:pkg" is imported dynamically from main.ts, whose edge
\* leads to a package; the NodeResolver refuses under the dynamic set a file
\* that the root set would let it return
C20_Witness ==
  /\ obs.op = "resolve" /\ obs.kind = "DynamicImport"
  /\ obs.specifier = "npm:pkg" /\ obs.referrer = "main.ts"
  /\ OkEdgeResolved
  /\ ~obs.value.ok
  /\ NodeOutcome(NodeResolverCall(RootPermissions)).ok
  /\ ~NodeOutcome(NodeResolverCall(DynamicPermissions)).ok


\* the load observed in o produced code for an executable module of the graph
ExecutableLoaded(o) ==
  /\ o.op = "load" /\ o.outcome = "ok"
  /\ ~InNpmPackage(o.specifier)
  /\ o.specifier \in graph
  /\ Module(o.specifier).kind = "Esm"
  /\ Module(o.specifier).media_type \notin DeclarationMediaTypes

\* C21 (eviction after emit): every load that produces code for an executable
\* module of the graph, the first and any later one, leaves the
\* ParsedSourceCache without an entry for that specifier and with exactly the
\* entries of the other specifiers it had before.
C21_EvictionAfterEmit ==
  /\ [][obs' # obs /\ ExecutableLoaded(obs')
          => parsed_source_cache' = parsed_source_cache \ {obs'.specifier}]_vars
  /\ [](ExecutableLoaded(obs) => obs.specifier \notin parsed_source_cache)

\* C21 witness: remap.js has been loaded; its entry is gone from the cache
\* and the entry of lib.ts, parsed by the same build, is still there
C21_Witness ==
  /\ ExecutableLoaded(obs)
  /\ obs.specifier = "remap.js"
  /\ "remap.js" \notin parsed_source_cache
  /\ "lib.ts" \in parsed_source_cache


\* the step is the commit of a prepare_module_load
CommitStep ==
  \E p \in Callers : pc[p] = "commit" /\ pc'[p] \in {"check", "ok"}

\* the step is a prepare_load for a specifier of the npm realm
NpmPrepareLoadStep ==
  \E p \in Callers :
    /\ pc[p] = "idle" /\ pc'[p] = "ok"
    /\ call'[p].via = "prepare_load"
    /\ \A s \in call'[p].roots : InNpmPackage(s)

\* load() can serve the specifier from the committed graph
ServedFromGraph(s) == LoadPreparedModule(s, Null).outcome = "ok"

\* C22 (the graph only grows, and only at commit): a step that changes the
\* committed graph is the commit of a prepare and publishes a graph holding
\* every specifier of the one it replaces; resolve, load, get_source_map,
\* get_source_line and prepare_load for a specifier of the npm realm leave
\* it as it is; and a specifier of the graph that load can serve can be
\* served after every later step (of the state, load_prepared_module reads
\* the committed graph alone, so the steps that change it are the ones to
\* look at).
C22_GraphOnlyGrows ==
  [][/\ graph' # graph => CommitStep /\ graph \subseteq graph'
     /\ obs' # obs /\ obs'.op \in {"resolve", "load", "get_source_map", "get_source_line"}
          => graph' = graph
     /\ NpmPrepareLoadStep => graph' = graph
     /\ graph' # graph
          => \A s \in graph : ServedFromGraph(s) => ServedFromGraph(s)']_vars

\* C22 witness: a second commit has been published on top of the first, and
\* data.json, which the first brought, is served by load after it
C22_Witness ==
  /\ {"main.ts", "remap.js"} \subseteq graph
  /\ obs.op = "load" /\ obs.specifier = "data.json" /\ obs.outcome = "ok"
  /\ ServedFromGraph("data.json")

=============================================================================
